---- MODULE Spec2Model ----
(***************************************************************************)
(* Model of bear's Application.cc: Application::command (the dispatcher)   *)
(* and bear::Command::execute (the intercept + citnames pipeline).         *)
(*                                                                         *)
(* A path is a sequence of tokens: "/" is the directory separator, "." is   *)
(* a dot, every other token is a run of ordinary characters.               *)
(* A rust::Result<T> is a record [ok, val, err].                           *)
(***************************************************************************)
EXTENDS Integers, Sequences, FiniteSets, TLC

\* ---- bounds ------------------------------------------------------------
MaxLen == 3
MaxCode == 1

\* ---- values ------------------------------------------------------------
Tokens == {"out", "json", ".", "/"}

SeqsUpTo(n) == UNION {[1..k -> Tokens] : k \in 0..n}

\* cmd::citnames::DEFAULT_OUTPUT
DEFAULT_OUTPUT == <<"compile_commands", ".", "json">>

\* cmd::intercept::DEFAULT_OUTPUT
DEFAULT_EVENTS == <<"events", ".", "json">>

\* the literal ".events.json" of Application::command
EVENTS_EXTENSION == <<".", "events", ".", "json">>

\* values the --output flag is given in the runs explored
OutputPaths == SeqsUpTo(MaxLen) \cup {<<"out", ".", "events", ".", "json">>}

NoCmd == [kind |-> "none"]
NoErr == ""

Ok(v) == [ok |-> TRUE, val |-> v, err |-> NoErr]
ErrCmd(e) == [ok |-> FALSE, val |-> NoCmd, err |-> e]
ErrInt(e) == [ok |-> FALSE, val |-> 0, err |-> e]
Unset == [ok |-> FALSE, val |-> NoCmd, err |-> "unset"]
UnsetInt == [ok |-> FALSE, val |-> 0, err |-> "unset"]

is_ok(r) == r.ok
is_err(r) == ~r.ok

ExitCodes == 0..MaxCode

\* ---- std::filesystem::path ----------------------------------------------
LastIndexOf(s, t) ==
    LET I == {i \in 1..Len(s) : s[i] = t}
    IN IF I = {} THEN 0 ELSE CHOOSE i \in I : \A j \in I : j <= i

filename(p) == SubSeq(p, LastIndexOf(p, "/") + 1, Len(p))

extension(p) ==
    LET f == filename(p)
        d == LastIndexOf(f, ".")
    IN IF d <= 1 \/ f = <<".", ".">> THEN <<>> ELSE SubSeq(f, d, Len(f))

replace_extension(p, r) ==
    LET stem == SubSeq(p, 1, Len(p) - Len(extension(p)))
    IN IF r = <<>> THEN stem
       ELSE IF Head(r) = "." THEN stem \o r
       ELSE stem \o <<".">> \o r

\* ---- flags::Arguments ---------------------------------------------------
\* command: flags::COMMAND is set;  build: cmd::intercept::FLAG_COMMAND (the
\* trailing build command) is set;  output: value of cmd::citnames::FLAG_OUTPUT
\* (empty set: not given);  citnames_matches / intercept_matches: what
\* cs::Citnames::matches and ic::Intercept::matches answer for these arguments.
Arguments ==
    [command : BOOLEAN, build : BOOLEAN,
     output : {{}} \cup {{p} : p \in OutputPaths},
     citnames_matches : BOOLEAN, intercept_matches : BOOLEAN]

unwrap_or(o, d) == IF o = {} THEN d ELSE CHOOSE p \in o : TRUE

\* ---- config::Configuration ----------------------------------------------
\* what config::Configuration::load_config produces when it succeeds: the
\* defaults with the flags applied, or the paths a configuration file sets
LoadedConfigurations(a) ==
    {[citnames |-> [input_file |-> DEFAULT_EVENTS,
                    output_file |-> unwrap_or(a.output, DEFAULT_OUTPUT)],
      intercept |-> [output_file |-> DEFAULT_EVENTS]],
     [citnames |-> [input_file |-> <<"in">>, output_file |-> <<"db">>],
      intercept |-> [output_file |-> <<"ev">>]]}

NoConfig ==
    [citnames |-> [input_file |-> <<>>, output_file |-> <<>>],
     intercept |-> [output_file |-> <<>>]]

VARIABLES
    pc,             \* position in Application::command / Command::execute
    args,           \* the flags::Arguments of this invocation
    files,          \* the paths that exist on the filesystem
    calls,          \* the calls made to the collaborators, in order
    configuration,  \* result of config::Configuration::load_config(args)
    config,         \* the local copy `config` of Application::command
    citnames,       \* the config held by the cs::Citnames factory
    intercept,      \* the config held by the ic::Intercept factory
    intercept_cmd,  \* result of intercept.subcommand(args)
    citnames_cmd,   \* result of citnames.subcommand(args)
    command,        \* what Application::command returned
    intercept_result,\* what the intercept stage's execute() returned
    result,         \* local `result` of Command::execute
    exists,         \* what fs::exists(output_, error_code) answered
    citnames_result,\* what the citnames stage's execute() returned (discarded)
    returned        \* what Command::execute returned

vars == <<pc, args, files, calls, configuration, config, citnames, intercept,
          intercept_cmd, citnames_cmd, command, intercept_result, result,
          exists, citnames_result, returned>>

Called(c) == \E i \in 1..Len(calls) : calls[i] = c
Count(c) == Cardinality({i \in 1..Len(calls) : calls[i] = c})
Index(c) == CHOOSE i \in 1..Len(calls) : calls[i] = c

\* The intermediate file a previous invocation with the same arguments may
\* have left behind.
StalePath(a) == replace_extension(unwrap_or(a.output, DEFAULT_OUTPUT), EVENTS_EXTENSION)

Init ==
    /\ pc = "command"
    /\ args \in Arguments
    /\ files \in {{}, {StalePath(args)}}
    /\ calls = <<>>
    /\ configuration = [ok |-> FALSE, val |-> NoConfig, err |-> "unset"]
    /\ config = NoConfig
    /\ citnames = NoConfig.citnames
    /\ intercept = NoConfig.intercept
    /\ intercept_cmd = Unset
    /\ citnames_cmd = Unset
    /\ command = Unset
    /\ intercept_result = UnsetInt
    /\ result = UnsetInt
    /\ exists = FALSE
    /\ citnames_result = UnsetInt
    /\ returned = UnsetInt

\* ---- Application::command ------------------------------------------------
Frame_command ==
    UNCHANGED <<args, files, intercept_result, result, exists, citnames_result,
                returned>>

\* LoadConfig, but a failed load is not propagated: dispatch goes on with the
\* configuration left empty
LoadConfig_ignoreFailure ==
    /\ pc = "command"
    /\ calls' = Append(calls, "load_config")
    /\ \/ /\ configuration' = [ok |-> FALSE, val |-> NoConfig, err |-> "ConfigLoadError"]
          /\ pc' = "citnames_matches"
          /\ UNCHANGED <<citnames, intercept>>
       \/ \E c \in LoadedConfigurations(args) :
          /\ configuration' = [ok |-> TRUE, val |-> c, err |-> NoErr]
          /\ citnames' = c.citnames
          /\ intercept' = c.intercept
          /\ pc' = "citnames_matches"
    /\ UNCHANGED <<config, intercept_cmd, citnames_cmd, command>>
    /\ Frame_command

\* auto configuration = config::Configuration::load_config(args);
\* on success the two factories are constructed from it
LoadConfig ==
    /\ pc = "command"
    /\ calls' = Append(calls, "load_config")
    /\ \/ /\ configuration' = [ok |-> FALSE, val |-> NoConfig, err |-> "ConfigLoadError"]
          /\ command' = ErrCmd("ConfigLoadError")
          /\ pc' = "done"
          /\ UNCHANGED <<citnames, intercept>>
       \/ \E c \in LoadedConfigurations(args) :
          /\ configuration' = [ok |-> TRUE, val |-> c, err |-> NoErr]
          /\ citnames' = c.citnames
          /\ intercept' = c.intercept
          /\ pc' = "citnames_matches"
          /\ UNCHANGED command
    /\ UNCHANGED <<config, intercept_cmd, citnames_cmd>>
    /\ Frame_command

\* cs::Citnames::subcommand / ic::Intercept::subcommand: the stage command
\* built from the configuration the factory holds, or a construction error
Subcommands(kind, cfg) ==
    {Ok([kind |-> kind, config |-> cfg]),
     ErrCmd(IF kind = "citnames" THEN "CitnamesSubcommandError"
                                 ELSE "InterceptSubcommandError")}

\* CitnamesMatches, but the intercept grammar is tried first
CitnamesMatches_interceptFirst ==
    /\ pc = "citnames_matches"
    /\ IF args.intercept_matches
       THEN /\ calls' = calls \o <<"intercept.matches", "intercept.subcommand">>
            /\ intercept_cmd' \in Subcommands("intercept", intercept)
            /\ command' = intercept_cmd'
            /\ pc' = "done"
            /\ UNCHANGED citnames_cmd
       ELSE IF args.citnames_matches
       THEN /\ calls' = calls \o <<"intercept.matches", "citnames.matches",
                                   "citnames.subcommand">>
            /\ citnames_cmd' \in Subcommands("citnames", citnames)
            /\ command' = citnames_cmd'
            /\ pc' = "done"
            /\ UNCHANGED intercept_cmd
       ELSE /\ calls' = calls \o <<"intercept.matches", "citnames.matches">>
            /\ pc' = "check_command"
            /\ UNCHANGED <<citnames_cmd, intercept_cmd, command>>
    /\ UNCHANGED <<configuration, config, citnames, intercept>>
    /\ Frame_command

\* if (citnames.matches(args)) { return citnames.subcommand(args); }
CitnamesMatches ==
    /\ pc = "citnames_matches"
    /\ IF args.citnames_matches
       THEN /\ calls' = calls \o <<"citnames.matches", "citnames.subcommand">>
            /\ citnames_cmd' \in Subcommands("citnames", citnames)
            /\ command' = citnames_cmd'
            /\ pc' = "done"
       ELSE /\ calls' = Append(calls, "citnames.matches")
            /\ pc' = "intercept_matches"
            /\ UNCHANGED <<citnames_cmd, command>>
    /\ UNCHANGED <<configuration, config, citnames, intercept, intercept_cmd>>
    /\ Frame_command

\* InterceptMatches, but a match does not return: the next check follows
InterceptMatches_fallThrough ==
    /\ pc = "intercept_matches"
    /\ calls' = Append(calls, "intercept.matches")
    /\ pc' = "check_command"
    /\ UNCHANGED <<configuration, config, citnames, intercept, citnames_cmd,
                   intercept_cmd, command>>
    /\ Frame_command

\* if (intercept.matches(args)) { return intercept.subcommand(args); }
InterceptMatches ==
    /\ pc = "intercept_matches"
    /\ IF args.intercept_matches
       THEN /\ calls' = calls \o <<"intercept.matches", "intercept.subcommand">>
            /\ intercept_cmd' \in Subcommands("intercept", intercept)
            /\ command' = intercept_cmd'
            /\ pc' = "done"
       ELSE /\ calls' = Append(calls, "intercept.matches")
            /\ pc' = "check_command"
            /\ UNCHANGED <<intercept_cmd, command>>
    /\ UNCHANGED <<configuration, config, citnames, intercept, citnames_cmd>>
    /\ Frame_command

\* CheckCommand, but the trailing build command (cmd::intercept::FLAG_COMMAND)
\* is tested in place of flags::COMMAND
CheckCommand_testsBuild ==
    /\ pc = "check_command"
    /\ IF args.build
       THEN /\ command' = ErrCmd("Invalid subcommand")
            /\ pc' = "done"
       ELSE /\ pc' = "paths"
            /\ UNCHANGED command
    /\ UNCHANGED <<calls, configuration, config, citnames, intercept,
                   intercept_cmd, citnames_cmd>>
    /\ Frame_command

\* CheckCommand without the test: every invocation goes on to the pipeline
CheckCommand_noTest ==
    /\ pc = "check_command"
    /\ pc' = "paths"
    /\ UNCHANGED <<calls, configuration, config, citnames, intercept,
                   intercept_cmd, citnames_cmd, command>>
    /\ Frame_command

\* if (args.as_string(flags::COMMAND).is_ok()) { return Err("Invalid subcommand"); }
CheckCommand ==
    /\ pc = "check_command"
    /\ IF args.command
       THEN /\ command' = ErrCmd("Invalid subcommand")
            /\ pc' = "done"
       ELSE /\ pc' = "paths"
            /\ UNCHANGED command
    /\ UNCHANGED <<calls, configuration, config, citnames, intercept,
                   intercept_cmd, citnames_cmd>>
    /\ Frame_command

\* ComputePaths, but the intercept output keeps its configured value
ComputePaths_keepInterceptOutput ==
    /\ pc = "paths"
    /\ LET c1 == [configuration.val EXCEPT
                     !.citnames.output_file = unwrap_or(args.output, DEFAULT_OUTPUT)]
           replaced == replace_extension(c1.citnames.output_file, EVENTS_EXTENSION)
       IN config' = [c1 EXCEPT !.citnames.output_file = replaced,
                               !.citnames.input_file = replaced]
    /\ pc' = "intercept_subcommand"
    /\ UNCHANGED <<calls, configuration, citnames, intercept, intercept_cmd,
                   citnames_cmd, command>>
    /\ Frame_command

\* auto config = configuration; ... the three assignments of lines 125-128.
\* path::replace_extension modifies the path it is called on and returns it.
ComputePaths ==
    /\ pc = "paths"
    /\ LET c1 == [configuration.val EXCEPT
                     !.citnames.output_file = unwrap_or(args.output, DEFAULT_OUTPUT)]
           replaced == replace_extension(c1.citnames.output_file, EVENTS_EXTENSION)
           c2 == [c1 EXCEPT !.citnames.output_file = replaced,
                            !.citnames.input_file = replaced]
       IN config' = [c2 EXCEPT !.intercept.output_file = c2.citnames.input_file]
    /\ pc' = "intercept_subcommand"
    /\ UNCHANGED <<calls, configuration, citnames, intercept, intercept_cmd,
                   citnames_cmd, command>>
    /\ Frame_command

\* InterceptSubcommand, but the command is built before load_config is called
InterceptSubcommand_beforeLoadConfig ==
    /\ pc = "intercept_subcommand"
    /\ intercept_cmd' \in Subcommands("intercept", intercept)
    /\ intercept' = config.intercept
    /\ calls' = calls \o <<"intercept.subcommand", "intercept.load_config">>
    /\ pc' = "citnames_subcommand"
    /\ UNCHANGED <<configuration, config, citnames, citnames_cmd, command>>
    /\ Frame_command

\* intercept.load_config(config.intercept); auto intercept_cmd = intercept.subcommand(args);
InterceptSubcommand ==
    /\ pc = "intercept_subcommand"
    /\ intercept' = config.intercept
    /\ calls' = calls \o <<"intercept.load_config", "intercept.subcommand">>
    /\ intercept_cmd' \in Subcommands("intercept", intercept')
    /\ pc' = "citnames_subcommand"
    /\ UNCHANGED <<configuration, config, citnames, citnames_cmd, command>>
    /\ Frame_command

\* citnames.load_config(config.citnames); auto citnames_cmd = citnames.subcommand(args);
CitnamesSubcommand ==
    /\ pc = "citnames_subcommand"
    /\ citnames' = config.citnames
    /\ calls' = calls \o <<"citnames.load_config", "citnames.subcommand">>
    /\ citnames_cmd' \in Subcommands("citnames", citnames')
    /\ pc' = "make_command"
    /\ UNCHANGED <<configuration, config, intercept, intercept_cmd, command>>
    /\ Frame_command

\* Command::Command
Command(intercept_, citnames_, output_) ==
    [kind |-> "bear", intercept_ |-> intercept_, citnames_ |-> citnames_,
     output_ |-> output_]

\* MakeCommand, but a construction error of a stage is returned at once
MakeCommand_propagateError ==
    /\ pc = "make_command"
    /\ IF is_err(intercept_cmd)
       THEN command' = intercept_cmd /\ pc' = "done"
       ELSE IF is_err(citnames_cmd)
       THEN command' = citnames_cmd /\ pc' = "done"
       ELSE /\ command' = Ok(Command(intercept_cmd, citnames_cmd,
                                     config.intercept.output_file))
            /\ pc' = "execute"
    /\ UNCHANGED <<calls, configuration, config, citnames, intercept,
                   intercept_cmd, citnames_cmd>>
    /\ Frame_command

\* std::make_unique<Command>(intercept_cmd, citnames_cmd, config.intercept.output_file);
\* return rust::Ok(bear_command);  -- the caller then runs execute() on it
MakeCommand ==
    /\ pc = "make_command"
    /\ command' = Ok(Command(intercept_cmd, citnames_cmd, config.intercept.output_file))
    /\ pc' = "execute"
    /\ UNCHANGED <<calls, configuration, config, citnames, intercept,
                   intercept_cmd, citnames_cmd>>
    /\ Frame_command

\* ---- Command::execute ----------------------------------------------------
Frame_execute ==
    UNCHANGED <<args, configuration, config, citnames, intercept,
                intercept_cmd, citnames_cmd, command>>

\* ps::Command::execute of a stage command: an exit code or a failure
Executions(kind) ==
    {Ok(c) : c \in ExitCodes} \cup
    {ErrInt(IF kind = "citnames" THEN "CitnamesExecuteError"
                                 ELSE "InterceptExecuteError")}

\* the stage may have written the file it is configured to write
Written(cmd) == {files, files \cup {cmd.config.output_file}}

\* ExecuteCheckIntercept, but citnames_ is looked at first
ExecuteCheckIntercept_citnamesFirst ==
    /\ pc = "execute"
    /\ IF is_err(command.val.citnames_)
       THEN /\ returned' = ErrInt(command.val.citnames_.err)
            /\ pc' = "done"
       ELSE IF is_err(command.val.intercept_)
       THEN /\ returned' = ErrInt(command.val.intercept_.err)
            /\ pc' = "done"
       ELSE /\ pc' = "execute_check_citnames"
            /\ UNCHANGED returned
    /\ UNCHANGED <<files, calls, intercept_result, result, exists, citnames_result>>
    /\ Frame_execute

\* if (intercept_.is_err()) { return rust::Err(intercept_.unwrap_err()); }
ExecuteCheckIntercept ==
    /\ pc = "execute"
    /\ IF is_err(command.val.intercept_)
       THEN /\ returned' = ErrInt(command.val.intercept_.err)
            /\ pc' = "done"
       ELSE /\ pc' = "execute_check_citnames"
            /\ UNCHANGED returned
    /\ UNCHANGED <<files, calls, intercept_result, result, exists, citnames_result>>
    /\ Frame_execute

\* ExecuteCheckCitnames without the early return
ExecuteCheckCitnames_noReturn ==
    /\ pc = "execute_check_citnames"
    /\ pc' = "execute_intercept"
    /\ UNCHANGED <<files, calls, intercept_result, result, exists, citnames_result,
                   returned>>
    /\ Frame_execute

\* if (citnames_.is_err()) { return rust::Err(citnames_.unwrap_err()); }
ExecuteCheckCitnames ==
    /\ pc = "execute_check_citnames"
    /\ IF is_err(command.val.citnames_)
       THEN /\ returned' = ErrInt(command.val.citnames_.err)
            /\ pc' = "done"
       ELSE /\ pc' = "execute_intercept"
            /\ UNCHANGED returned
    /\ UNCHANGED <<files, calls, intercept_result, result, exists, citnames_result>>
    /\ Frame_execute

\* InterceptExecute, but execute() does not wait for the stage to return
InterceptExecute_detached ==
    /\ pc = "execute_intercept"
    /\ calls' = Append(calls, "intercept.execute")
    /\ pc' = "exists"
    /\ UNCHANGED <<files, intercept_result, result, exists, citnames_result, returned>>
    /\ Frame_execute

\* InterceptExecute, but the citnames stage is started first
InterceptExecute_citnamesFirst ==
    /\ pc = "execute_intercept"
    /\ calls' = Append(calls, "citnames.execute")
    /\ pc' = "in_citnames"
    /\ UNCHANGED <<files, intercept_result, result, exists, citnames_result, returned>>
    /\ Frame_execute

\* intercept_.and_then<int>(cmd->execute()): the call is made
InterceptExecute ==
    /\ pc = "execute_intercept"
    /\ calls' = Append(calls, "intercept.execute")
    /\ pc' = "in_intercept"
    /\ UNCHANGED <<files, intercept_result, result, exists, citnames_result, returned>>
    /\ Frame_execute

\* InterceptReturn, but a failed intercept stage is run a second time
InterceptReturn_retryOnFailure ==
    /\ pc = "in_intercept"
    /\ intercept_result' \in Executions("intercept")
    /\ result' = intercept_result'
    /\ files' \in Written(command.val.intercept_.val)
    /\ calls' = Append(calls, "intercept.returned")
    /\ pc' = IF is_err(result') /\ Count("intercept.execute") < 2
             THEN "execute_intercept" ELSE "exists"
    /\ UNCHANGED <<exists, citnames_result, returned>>
    /\ Frame_execute

\* auto result = ...: the intercept stage returns
InterceptReturn ==
    /\ pc = "in_intercept"
    /\ intercept_result' \in Executions("intercept")
    /\ result' = intercept_result'
    /\ files' \in Written(command.val.intercept_.val)
    /\ calls' = Append(calls, "intercept.returned")
    /\ pc' = "exists"
    /\ UNCHANGED <<exists, citnames_result, returned>>
    /\ Frame_execute

\* FsExists, but fs::remove follows the if-block instead of being inside it
FsExists_removeOutsideIf ==
    /\ pc = "exists"
    /\ calls' = Append(calls, "fs.exists")
    /\ exists' = (command.val.output_ \in files)
    /\ pc' = IF exists' THEN "execute_citnames" ELSE "remove"
    /\ UNCHANGED <<files, intercept_result, result, citnames_result, returned>>
    /\ Frame_execute

\* FsExists, but the file is looked for only when the intercept stage succeeded
FsExists_onlyOnSuccess ==
    /\ pc = "exists"
    /\ calls' = IF is_ok(result) THEN Append(calls, "fs.exists") ELSE calls
    /\ exists' = (is_ok(result) /\ command.val.output_ \in files)
    /\ pc' = IF exists' THEN "execute_citnames" ELSE "return"
    /\ UNCHANGED <<files, intercept_result, result, citnames_result, returned>>
    /\ Frame_execute

\* if (fs::exists(output_, error_code))
FsExists ==
    /\ pc = "exists"
    /\ calls' = Append(calls, "fs.exists")
    /\ exists' = (command.val.output_ \in files)
    /\ pc' = IF exists' THEN "execute_citnames" ELSE "return"
    /\ UNCHANGED <<files, intercept_result, result, citnames_result, returned>>
    /\ Frame_execute

\* citnames_.on_success(cmd->execute()): the call is made
CitnamesExecute ==
    /\ pc = "execute_citnames"
    /\ calls' = Append(calls, "citnames.execute")
    /\ pc' = "in_citnames"
    /\ UNCHANGED <<files, intercept_result, result, exists, citnames_result, returned>>
    /\ Frame_execute

\* CitnamesReturn, but the file is removed only when the stage succeeded
CitnamesReturn_removeOnSuccess ==
    /\ pc = "in_citnames"
    /\ citnames_result' \in Executions("citnames")
    /\ files' \in Written(command.val.citnames_.val)
    /\ calls' = Append(calls, "citnames.returned")
    /\ pc' = IF is_ok(citnames_result') THEN "remove" ELSE "return"
    /\ UNCHANGED <<intercept_result, result, exists, returned>>
    /\ Frame_execute

\* the citnames stage returns; its result is dropped
CitnamesReturn ==
    /\ pc = "in_citnames"
    /\ citnames_result' \in Executions("citnames")
    /\ files' \in Written(command.val.citnames_.val)
    /\ calls' = Append(calls, "citnames.returned")
    /\ pc' = "remove"
    /\ UNCHANGED <<intercept_result, result, exists, returned>>
    /\ Frame_execute

\* fs::remove(output_, error_code): the file is removed, or the removal fails
\* and the error is left in error_code
FsRemove ==
    /\ pc = "remove"
    /\ calls' = Append(calls, "fs.remove")
    /\ files' \in {files \ {command.val.output_}, files}
    /\ pc' = "return"
    /\ UNCHANGED <<intercept_result, result, exists, citnames_result, returned>>
    /\ Frame_execute

\* ExecuteReturn, but the result of the last stage that ran is returned
ExecuteReturn_lastStage ==
    /\ pc = "return"
    /\ returned' = IF Called("citnames.returned") THEN citnames_result ELSE result
    /\ pc' = "done"
    /\ UNCHANGED <<files, calls, intercept_result, result, exists, citnames_result>>
    /\ Frame_execute

\* return result;
ExecuteReturn ==
    /\ pc = "return"
    /\ returned' = result
    /\ pc' = "done"
    /\ UNCHANGED <<files, calls, intercept_result, result, exists, citnames_result>>
    /\ Frame_execute

Next ==
    \/ LoadConfig
    \/ CitnamesMatches
    \/ InterceptMatches
    \/ CheckCommand
    \/ ComputePaths
    \/ InterceptSubcommand
    \/ CitnamesSubcommand
    \/ MakeCommand
    \/ ExecuteCheckIntercept
    \/ ExecuteCheckCitnames
    \/ InterceptExecute
    \/ InterceptReturn
    \/ FsExists
    \/ CitnamesExecute
    \/ CitnamesReturn
    \/ FsRemove
    \/ ExecuteReturn

Spec == Init /\ [][Next]_vars

\* The code is sequential and blocking: the next statement is always taken,
\* and a stage's execute() that was called returns.
LiveSpec == Init /\ [][Next]_vars /\ WF_vars(Next)

TypeOK ==
    /\ pc \in {"command", "citnames_matches", "intercept_matches", "check_command",
               "paths", "intercept_subcommand", "citnames_subcommand",
               "make_command", "execute", "execute_check_citnames",
               "execute_intercept", "in_intercept", "exists", "execute_citnames",
               "in_citnames", "remove", "return", "done"}
    /\ args \in Arguments

\* ---- properties of Application::command ---------------------------------
\* Application::command has returned
Resolved ==
    pc \notin {"command", "citnames_matches", "intercept_matches", "check_command",
               "paths", "intercept_subcommand", "citnames_subcommand",
               "make_command"}

IsPipeline == command.ok /\ command.val.kind = "bear"

Before(c, d) == Called(c) /\ Called(d) /\ Index(c) < Index(d)

\* the cases of Application::command once the configuration is loaded
Pipelined ==
    /\ configuration.ok
    /\ ~args.citnames_matches
    /\ ~args.intercept_matches
    /\ ~args.command

\* C1 (as stated): for arguments matching the intercept grammar, also when
\* they match the citnames grammar, command() returns intercept.subcommand's
\* outcome, citnames.subcommand is never called, and the intercept grammar is
\* tested before the citnames grammar.
C1_CaptureWins ==
    (Resolved /\ configuration.ok /\ args.intercept_matches) =>
        /\ command = intercept_cmd
        /\ ~Called("citnames.subcommand")
        /\ Called("citnames.matches") => Before("intercept.matches", "citnames.matches")

\* C1 (amended): the citnames grammar is tested first and the intercept
\* grammar only when it does not match.  Arguments matching the intercept
\* grammar and not the citnames grammar get exactly intercept.subcommand's
\* outcome and citnames.subcommand is never called; arguments matching both
\* get citnames.subcommand's outcome and intercept is not consulted.
C1_TranslateCheckedFirst ==
    (Resolved /\ configuration.ok) =>
        /\ Called("citnames.matches")
        /\ Called("intercept.matches") => Before("citnames.matches", "intercept.matches")
        /\ (args.intercept_matches /\ ~args.citnames_matches) =>
               /\ command = intercept_cmd
               /\ command # Unset
               /\ command.ok => command.val.kind = "intercept"
               /\ Count("intercept.subcommand") = 1
               /\ ~Called("citnames.subcommand")
               /\ citnames_cmd = Unset
        /\ (args.intercept_matches /\ args.citnames_matches) =>
               /\ command = citnames_cmd
               /\ ~Called("intercept.matches")
               /\ ~Called("intercept.subcommand")

C1_Witness ==
    /\ pc = "done"
    /\ args.intercept_matches
    /\ ~args.citnames_matches
    /\ command.ok
    /\ command.val.kind = "intercept"

\* C2: for arguments matching the citnames grammar (the configuration being
\* loaded), command() returns exactly citnames.subcommand's outcome, success
\* or failure; intercept.subcommand is never called and no bear::Command is
\* built.
C2_TranslateOutcome ==
    (Resolved /\ configuration.ok /\ args.citnames_matches) =>
        /\ pc = "done"
        /\ command = citnames_cmd
        /\ command \in Subcommands("citnames", configuration.val.citnames)
        /\ Count("citnames.subcommand") = 1
        /\ ~Called("intercept.subcommand")
        /\ intercept_cmd = Unset
        /\ ~IsPipeline

C2_Witness ==
    /\ pc = "done"
    /\ args.citnames_matches
    /\ args.intercept_matches
    /\ is_err(command)
    /\ command.err = "CitnamesSubcommandError"

\* C3: arguments matching neither grammar and carrying flags::COMMAND make
\* command() fail with "Invalid subcommand"; no subcommand is constructed and
\* no bear::Command is created.
C3_InvalidSubcommand ==
    (configuration.ok /\ ~args.citnames_matches /\ ~args.intercept_matches
        /\ args.command) =>
        /\ ~Called("intercept.subcommand")
        /\ ~Called("citnames.subcommand")
        /\ intercept_cmd = Unset /\ citnames_cmd = Unset
        /\ ~IsPipeline
        /\ Resolved => (pc = "done" /\ command = ErrCmd("Invalid subcommand"))

C3_Witness ==
    /\ pc = "done"
    /\ args.command
    /\ ~args.citnames_matches /\ ~args.intercept_matches
    /\ command = ErrCmd("Invalid subcommand")

\* C4: in the pipelined case command() returns a bear::Command whose output_
\* is the --output value (else DEFAULT_OUTPUT) with its extension replaced by
\* ".events.json"; the intercept stage's output_file, the citnames stage's
\* input_file and output_ are that one path.
C4_IntermediatePath ==
    (Resolved /\ Pipelined) =>
        /\ IsPipeline
        /\ command.val.output_ =
               replace_extension(unwrap_or(args.output, DEFAULT_OUTPUT), EVENTS_EXTENSION)
        /\ args.output = {} =>
               command.val.output_ = <<"compile_commands", ".", "events", ".", "json">>
        /\ args.output = {<<"out", ".", "json">>} =>
               command.val.output_ = <<"out", ".", "events", ".", "json">>
        /\ args.output = {<<"out", "/", "out">>} =>
               command.val.output_ = <<"out", "/", "out", ".", "events", ".", "json">>
        /\ intercept.output_file = command.val.output_
        /\ citnames.input_file = command.val.output_
        /\ is_ok(command.val.intercept_) =>
               command.val.intercept_.val.config.output_file = command.val.output_
        /\ is_ok(command.val.citnames_) =>
               command.val.citnames_.val.config.input_file = command.val.output_

C4_Witness ==
    /\ Resolved /\ Pipelined /\ IsPipeline
    /\ args.output = {<<"out", ".", "json">>}
    /\ configuration.val.intercept.output_file = <<"ev">>
    /\ is_ok(command.val.intercept_) /\ is_ok(command.val.citnames_)

\* C5: with no stage-exclusive flags (neither grammar matches, flags::COMMAND
\* unset) and a trailing build command (cmd::intercept::FLAG_COMMAND set)
\* command() returns a bear::Command, not an error and not a stage command,
\* and the configurations given to intercept and to citnames carry the
\* computed path as output_file and as input_file.
C5_BuildCommandPipeline ==
    (Resolved /\ Pipelined /\ args.build) =>
        /\ is_ok(command)
        /\ command.val.kind = "bear"
        /\ command.val.kind \notin {"intercept", "citnames"}
        /\ config.intercept.output_file = config.citnames.input_file
        /\ intercept = config.intercept
        /\ citnames = config.citnames
        /\ Before("intercept.load_config", "intercept.subcommand")
        /\ Before("citnames.load_config", "citnames.subcommand")
        /\ config.citnames.input_file # configuration.val.citnames.input_file

C5_Witness ==
    /\ Resolved /\ Pipelined /\ args.build
    /\ args.output = {}
    /\ command.val.kind = "bear"

\* C6: when load_config fails, command() returns that error at once: no
\* matches, no subcommand, no stage command and no bear::Command.
C6_ConfigLoadError ==
    (is_err(configuration) /\ Called("load_config")) =>
        /\ pc = "done"
        /\ command = ErrCmd(configuration.err)
        /\ command.err = "ConfigLoadError"
        /\ calls = <<"load_config">>
        /\ intercept_cmd = Unset /\ citnames_cmd = Unset
        /\ returned = UnsetInt

C6_Witness ==
    /\ pc = "done"
    /\ is_err(configuration)
    /\ command = ErrCmd("ConfigLoadError")
    /\ args.citnames_matches

\* ---- properties of Command::execute ---------------------------------------
StageCalls == {"intercept.execute", "citnames.execute"}
FsCalls == {"fs.exists", "fs.remove"}

NoneCalled(C) == \A c \in C : ~Called(c)

BothOk == IsPipeline /\ is_ok(command.val.intercept_) /\ is_ok(command.val.citnames_)

\* C7: when intercept_ holds an error E, execute() returns E (also when
\* citnames_ holds an error), calls neither stage's execute() and neither
\* fs::exists nor fs::remove.
C7_InterceptConstructionError ==
    (IsPipeline /\ is_err(command.val.intercept_)) =>
        /\ pc \in {"execute", "done"}
        /\ NoneCalled(StageCalls)
        /\ NoneCalled(FsCalls)
        /\ intercept_result = UnsetInt /\ citnames_result = UnsetInt
        /\ pc = "done" =>
               /\ returned = ErrInt(command.val.intercept_.err)
               /\ returned.err = "InterceptSubcommandError"

C7_Witness ==
    /\ IsPipeline
    /\ pc = "done"
    /\ is_err(command.val.intercept_) /\ is_err(command.val.citnames_)
    /\ returned = ErrInt("InterceptSubcommandError")
    /\ files # {}

\* C8: when intercept_ is a command and citnames_ holds an error F, execute()
\* returns F, calls neither stage's execute() and neither fs::exists nor
\* fs::remove.
C8_CitnamesConstructionError ==
    (IsPipeline /\ is_ok(command.val.intercept_) /\ is_err(command.val.citnames_)) =>
        /\ pc \in {"execute", "execute_check_citnames", "done"}
        /\ NoneCalled(StageCalls)
        /\ NoneCalled(FsCalls)
        /\ intercept_result = UnsetInt /\ citnames_result = UnsetInt
        /\ pc = "done" =>
               /\ returned = ErrInt(command.val.citnames_.err)
               /\ returned.err = "CitnamesSubcommandError"

C8_Witness ==
    /\ IsPipeline
    /\ pc = "done"
    /\ is_ok(command.val.intercept_) /\ is_err(command.val.citnames_)
    /\ returned = ErrInt("CitnamesSubcommandError")

\* C9: when both stage commands were constructed and output_ exists once the
\* intercept stage has returned, the citnames stage's execute() is called
\* exactly once and fs::remove exactly once, after the citnames stage has
\* returned, whatever the citnames stage returned.
C9_TranslateThenRemove ==
    BothOk =>
        /\ (calls # <<>> /\ calls[Len(calls)] = "fs.exists") =>
               /\ Before("intercept.returned", "fs.exists")
               /\ exists <=> (command.val.output_ \in files)
        /\ pc \in {"execute_citnames", "in_citnames", "remove"} => exists
        /\ (pc = "done" /\ exists) =>
               /\ Count("intercept.execute") = 1
               /\ Count("fs.exists") = 1
               /\ Count("citnames.execute") = 1
               /\ Count("citnames.returned") = 1
               /\ Count("fs.remove") = 1
               /\ Before("fs.exists", "citnames.execute")
               /\ Before("citnames.returned", "fs.remove")
               /\ citnames_result \in Executions("citnames")

C9_Witness ==
    /\ BothOk
    /\ pc = "done"
    /\ exists
    /\ citnames_result = ErrInt("CitnamesExecuteError")
    /\ Count("fs.remove") = 1

\* C10: when both stage commands were constructed, execute() returns exactly
\* what the intercept stage's execute() returned, exit code or failure; the
\* citnames stage's result and a failed fs::remove do not change it.
C10_ReturnsInterceptResult ==
    BothOk =>
        /\ pc \in {"exists", "execute_citnames", "in_citnames", "remove", "return",
                   "done"} =>
               /\ intercept_result \in Executions("intercept")
               /\ result = intercept_result
        /\ pc = "done" =>
               /\ returned = intercept_result
               /\ returned.err # "CitnamesExecuteError"

C10_Witness ==
    /\ BothOk
    /\ pc = "done"
    /\ returned = Ok(0)
    /\ citnames_result = ErrInt("CitnamesExecuteError")
    /\ Called("fs.remove")
    /\ command.val.output_ \in files

\* C11: when both stage commands were constructed and output_ does not exist
\* once the intercept stage has returned, the citnames stage's execute() is
\* never called and fs::remove is never called; the filesystem stays as the
\* intercept stage left it.
C11_NoFileNoTranslate ==
    /\ [](BothOk /\ Called("fs.exists") /\ ~exists =>
            /\ pc \in {"return", "done"}
            /\ calls[Len(calls)] = "fs.exists"
            /\ ~Called("citnames.execute")
            /\ ~Called("fs.remove")
            /\ citnames_result = UnsetInt
            /\ command.val.output_ \notin files)
    /\ [][(BothOk /\ pc \in {"exists", "return"} /\ command.val.output_ \notin files)
            => files' = files]_vars

C11_Witness ==
    /\ BothOk
    /\ pc = "done"
    /\ Called("fs.exists")
    /\ ~exists
    /\ returned = Ok(0)

\* C12: fs::exists is called whether the intercept stage's execute() succeeded
\* or failed; when it failed and output_ exists, the citnames stage still
\* runs, fs::remove is then called on output_, and execute() returns the
\* intercept stage's failure.
C12_TranslateAfterFailedCapture ==
    BothOk =>
        /\ pc \in {"execute_citnames", "in_citnames", "remove", "return", "done"} =>
               Count("fs.exists") = 1
        /\ (pc = "done" /\ is_err(intercept_result) /\ command.val.output_ \in files) =>
               Called("fs.remove")
        /\ (pc = "done" /\ is_err(intercept_result) /\ exists) =>
               /\ Before("fs.exists", "citnames.execute")
               /\ Before("citnames.returned", "fs.remove")
               /\ returned = ErrInt("InterceptExecuteError")
               /\ returned = intercept_result

C12_Witness ==
    /\ BothOk
    /\ pc = "done"
    /\ intercept_result = ErrInt("InterceptExecuteError")
    /\ exists
    /\ Called("citnames.returned")
    /\ Called("fs.remove")
    /\ command.val.output_ \notin files
    /\ returned = ErrInt("InterceptExecuteError")

\* C13: in the pipelined case command() always returns Ok(bear::Command), also
\* when intercept.subcommand or citnames.subcommand failed: the failures are
\* kept in intercept_ and citnames_ and come out only from execute().
C13_ConstructionFailuresDeferred ==
    (Resolved /\ Pipelined) =>
        /\ is_ok(command)
        /\ command.val.kind = "bear"
        /\ command.val.intercept_ = intercept_cmd
        /\ command.val.citnames_ = citnames_cmd
        /\ intercept_cmd \in Subcommands("intercept", config.intercept)
        /\ citnames_cmd \in Subcommands("citnames", config.citnames)
        /\ pc = "execute" => returned = UnsetInt
        /\ (is_err(intercept_cmd) \/ is_err(citnames_cmd)) =>
               /\ pc \in {"execute", "execute_check_citnames", "done"}
               /\ pc = "done" => returned \in {ErrInt(intercept_cmd.err),
                                               ErrInt(citnames_cmd.err)}

C13_Witness ==
    /\ Resolved /\ Pipelined
    /\ pc = "execute"
    /\ is_ok(command)
    /\ is_err(command.val.intercept_)
    /\ is_err(command.val.citnames_)

\* C14: within execute() the stages do not overlap and intercept comes first:
\* the citnames stage's execute() is called only after the intercept stage's
\* execute() has returned, and fs::exists is called only after the intercept
\* stage has returned.
C14_CaptureBeforeTranslate ==
    /\ Count("intercept.returned") <= Count("intercept.execute")
    /\ Count("citnames.returned") <= Count("citnames.execute")
    /\ pc = "in_intercept" <=> Count("intercept.returned") < Count("intercept.execute")
    /\ pc = "in_citnames" <=> Count("citnames.returned") < Count("citnames.execute")
    /\ Called("citnames.execute") => Before("intercept.returned", "citnames.execute")
    /\ Called("fs.exists") => Before("intercept.returned", "fs.exists")
    /\ Called("citnames.execute") => Before("fs.exists", "citnames.execute")

C14_Witness ==
    /\ pc = "in_citnames"
    /\ Count("intercept.execute") = 1
    /\ Count("intercept.returned") = 1
    /\ Count("citnames.execute") = 1

\* C15: in the pipelined case each factory is given the configuration that
\* carries the computed path, through load_config, before its subcommand is
\* built, so a stage command never carries the paths loaded before the
\* override; the intercept command is built before the citnames command.
C15_LoadConfigBeforeSubcommand ==
    Pipelined =>
        /\ Called("intercept.subcommand") =>
               /\ Before("intercept.load_config", "intercept.subcommand")
               /\ Count("intercept.load_config") = 1
               /\ Count("intercept.subcommand") = 1
               /\ is_ok(intercept_cmd) =>
                      /\ intercept_cmd.val.config = config.intercept
                      /\ intercept_cmd.val.config.output_file = StalePath(args)
        /\ Called("citnames.subcommand") =>
               /\ Before("citnames.load_config", "citnames.subcommand")
               /\ Before("intercept.subcommand", "citnames.load_config")
               /\ Count("citnames.load_config") = 1
               /\ Count("citnames.subcommand") = 1
               /\ is_ok(citnames_cmd) =>
                      /\ citnames_cmd.val.config = config.citnames
                      /\ citnames_cmd.val.config.input_file = StalePath(args)

C15_Witness ==
    /\ Pipelined
    /\ pc = "make_command"
    /\ is_ok(intercept_cmd) /\ is_ok(citnames_cmd)
    /\ configuration.val.intercept.output_file = <<"ev">>
    /\ intercept_cmd.val.config.output_file # <<"ev">>
    /\ citnames_cmd.val.config.input_file # <<"in">>

EndsWith(p, suffix) ==
    /\ Len(p) >= Len(suffix)
    /\ SubSeq(p, Len(p) - Len(suffix) + 1, Len(p)) = suffix

\* C16: in the pipelined case computing the intermediate path leaves the
\* citnames output_file unchanged: the configuration handed to the citnames
\* factory has output_file equal to the --output value or DEFAULT_OUTPUT, and
\* so output_file differs from input_file whenever that value does not end in
\* ".events.json".
C16_OutputPathUnchanged ==
    (Pipelined /\ Called("citnames.load_config")) =>
        /\ citnames.output_file = unwrap_or(args.output, DEFAULT_OUTPUT)
        /\ ~EndsWith(unwrap_or(args.output, DEFAULT_OUTPUT), EVENTS_EXTENSION) =>
               citnames.output_file # citnames.input_file

\* C17: no retries: during one execute() the intercept stage's execute() is
\* called at most once and the citnames stage's execute() at most once, and a
\* stage whose execute() failed is not called again.
C17_NoRetries ==
    /\ Count("intercept.execute") <= 1
    /\ Count("citnames.execute") <= 1
    /\ Count("intercept.returned") <= 1
    /\ Count("citnames.returned") <= 1
    /\ intercept_result = ErrInt("InterceptExecuteError") =>
           /\ pc \notin {"execute_intercept", "in_intercept"}
           /\ Count("intercept.execute") = 1
    /\ citnames_result = ErrInt("CitnamesExecuteError") =>
           /\ pc \in {"remove", "return", "done"}
           /\ Count("citnames.execute") = 1

C17_Witness ==
    /\ pc = "done"
    /\ intercept_result = ErrInt("InterceptExecuteError")
    /\ citnames_result = ErrInt("CitnamesExecuteError")
    /\ returned = ErrInt("InterceptExecuteError")

\* the states of bear::Command::execute
Phase ==
    CASE pc \in {"execute", "execute_check_citnames"} -> "ConstructionPending"
      [] pc = "execute_intercept" -> "Ready"
      [] pc \in {"in_intercept", "exists", "execute_citnames", "in_citnames",
                 "remove", "return"} -> "Executing"
      [] pc = "done" /\ IsPipeline /\ ~BothOk -> "ConstructionFailed"
      [] pc = "done" /\ BothOk -> "Done"
      [] OTHER -> "NoExecute"

PhaseSteps ==
    {<<"NoExecute", "ConstructionPending">>,
     <<"ConstructionPending", "ConstructionFailed">>,
     <<"ConstructionPending", "Ready">>,
     <<"Ready", "Executing">>,
     <<"Executing", "Done">>}

\* C18: execute() goes ConstructionPending -> ConstructionFailed | Ready ->
\* Executing -> Done.  When the stages' execute() calls return, execute()
\* reaches ConstructionFailed or Done and nothing is called after that; it
\* returns only after every stage it called has returned, so a stage that
\* does not return keeps execute() from returning.
C18_ExecuteStateMachine ==
    /\ (pc = "execute") ~> (Phase \in {"ConstructionFailed", "Done"})
    /\ [][Phase' = Phase \/ <<Phase, Phase'>> \in PhaseSteps]_vars
    /\ [][pc # "done"]_vars
    /\ [](pc \in {"in_intercept", "in_citnames"} => returned = UnsetInt)
    /\ [](Phase \in {"ConstructionFailed", "Done"} <=> (IsPipeline /\ returned # UnsetInt))
    /\ [](Phase = "ConstructionFailed" => calls[Len(calls)] = "citnames.subcommand")
    /\ [](Phase = "Done" =>
            /\ Count("intercept.returned") = Count("intercept.execute")
            /\ Count("intercept.execute") = 1
            /\ Count("citnames.returned") = Count("citnames.execute"))
    /\ [][pc = "in_intercept" => calls' = Append(calls, "intercept.returned")]_vars
    /\ [][pc = "in_citnames" => calls' = Append(calls, "citnames.returned")]_vars

C18_Witness ==
    /\ Phase = "Done"
    /\ Called("citnames.returned")
    /\ Called("fs.remove")
    /\ returned = Ok(1)

====
